---- MODULE Spec2Model ----
(***************************************************************************)
(* State-machine model of services/scrap/main.py: the /sync-jobs handler   *)
(* that fetches the Greenhouse boards of the configured companies, filters *)
(* and normalizes the postings, stages them in one Firestore write batch   *)
(* and commits the batch.                                                  *)
(*                                                                         *)
(* Text is modelled as a sequence of words (the strings the code handles   *)
(* are space separated words); lower(), title(), capitalize() are tables   *)
(* over the words of the model, a whole-word regular expression match is   *)
(* a contiguous match of the keyword's words.                              *)
(***************************************************************************)
EXTENDS Integers, Sequences, FiniteSets, TLC

\* ------------------------------------------------------------------ bounds
NumSources == 2      \* how many of the configured companies are scraped
MaxJobs    == 2      \* postings in one upstream response
NumWorkers == 2      \* threads that serve /sync-jobs
MaxClock   == 2      \* values of the wall clock
ResyncJobs == 1      \* postings in one response of a board whose answer is fixed

\* --------------------------------------------------------- configuration
API_KEY == "my-development-secret-key-123"

AllCompanies == <<"figma", "discord", "dropbox", "duolingo">>

TARGET_COMPANIES == SubSeq(AllCompanies, 1, NumSources)

TECH_KEYWORDS ==
  << <<"software">>, <<"developer">>, <<"engineer">>, <<"data">>,
     <<"analytics">>, <<"analyst">>, <<"machine", "learning">>, <<"python">>,
     <<"full", "stack">>, <<"frontend">>, <<"backend">>, <<"cloud">>,
     <<"devops">>, <<"security">>, <<"it">>,
     <<"artificial", "intelligence">>, <<"ai">>, <<"react">> >>

\* JSON null, and a key that the JSON object does not have
Null   == "<null>"
Absent == "<absent>"

\* ------------------------------------------------------------------ state
\* A request is served by a worker thread of the server; what is kept of a
\* worker is its latest request.
Workers == 1..NumWorkers

VARIABLES
  clock,         \* datetime.now(timezone.utc)
  board,         \* board[i]: the answer of the i-th company's board when it is fixed
  store,         \* the jobs collection of Firestore
  phase,         \* phase[w]: Idle, Rejected, Running, Succeeded, Failed
  now_iso,       \* now_iso[w]
  upload_count,  \* upload_count[w]
  batch,         \* batch[w]: the write batch
  idx,           \* idx[w]: position of the for loop in TARGET_COMPANIES
  result,        \* result[w]: the HTTP response of the handler
  requests,      \* history: requests[w], the [company, code] of the cycle's requests (0: raised, -1: no answer)
  passed,        \* history: passed[w], the postings of the cycle that passed the filter
  commits,       \* history: commits[w], the outcomes of the cycle's batch.commit calls
  snapshot,      \* history: snapshot[w], the store when the cycle was triggered
  ever_committed,\* history: the keys of all the commits that went through
  synced_now     \* history: now_iso of the latest cycle that succeeded against fixed boards

vars == <<clock, board, store, phase, now_iso, upload_count, batch, idx, result,
          requests, passed, commits, snapshot, ever_committed, synced_now>>

\* ------------------------------------------------------ string functions
\* str.lower() on one word
LowerWord(w) ==
  CASE w = "Software"  -> "software"
    [] w = "Engineer"  -> "engineer"
    [] w = "Data"      -> "data"
    [] w = "Intern"    -> "intern"
    [] w = "Office"    -> "office"
    [] w = "Manager"   -> "manager"
    [] w = "Python"    -> "python"
    [] w = "Not"       -> "not"
    [] w = "Our"       -> "our"
    [] w = "Mission"   -> "mission"
    [] OTHER           -> w

\* str.lower() on a text
Lower(text) == [i \in 1..Len(text) |-> LowerWord(text[i])]

\* str.title() on one lower-case word of the keyword vocabulary
TitleWord(w) ==
  CASE w = "software"     -> "Software"
    [] w = "developer"    -> "Developer"
    [] w = "engineer"     -> "Engineer"
    [] w = "data"         -> "Data"
    [] w = "analytics"    -> "Analytics"
    [] w = "analyst"      -> "Analyst"
    [] w = "machine"      -> "Machine"
    [] w = "learning"     -> "Learning"
    [] w = "python"       -> "Python"
    [] w = "full"         -> "Full"
    [] w = "stack"        -> "Stack"
    [] w = "frontend"     -> "Frontend"
    [] w = "backend"      -> "Backend"
    [] w = "cloud"        -> "Cloud"
    [] w = "devops"       -> "Devops"
    [] w = "security"     -> "Security"
    [] w = "it"           -> "It"
    [] w = "artificial"   -> "Artificial"
    [] w = "intelligence" -> "Intelligence"
    [] w = "ai"           -> "Ai"
    [] w = "react"        -> "React"
    [] OTHER              -> w

\* kw.title()
Title(kw) == [i \in 1..Len(kw) |-> TitleWord(kw[i])]

\* company.capitalize()
Capitalize(company) ==
  CASE company = "figma"    -> "Figma"
    [] company = "discord"  -> "Discord"
    [] company = "dropbox"  -> "Dropbox"
    [] company = "duolingo" -> "Duolingo"
    [] OTHER                -> company

\* re.search(rf'\b{re.escape(kw)}\b', text): kw occurs as whole words
WordMatch(kw, text) ==
  \E i \in 1..Len(text) :
     /\ i + Len(kw) - 1 <= Len(text)
     /\ \A j \in 1..Len(kw) : text[i + j - 1] = kw[j]

\* 'intern' in title_lower: a substring test, so inside any word
InternWords == {"intern"}

ContainsIntern(text) == \E i \in 1..Len(text) : text[i] \in InternWords

\* ------------------------------------------------------ scraper helpers
BoilerplateClasses ==
  {"content-intro", "content-conclusion", "content-pay-transparency"}

\* clean_html_text: raw_html is the sequence of the sections [class, words]
\* of the unescaped, parsed html; None and '' are the empty sequence.
\* Boilerplate sections are dropped and the words of the others joined with
\* single spaces.
RECURSIVE JoinText(_)
JoinText(sections) ==
  IF sections = <<>> THEN <<>>
  ELSE (IF Head(sections).class \in BoilerplateClasses
          THEN <<>> ELSE Head(sections).words) \o JoinText(Tail(sections))

clean_html_text(raw_html) ==
  IF raw_html = <<>> THEN <<"Not", "specified">>
  ELSE JoinText(raw_html)

\* extract_tags: the title-cased keywords that whole-word match the
\* lower-cased title + " " + description, without duplicates
extract_tags(title, description) ==
  LET combined_text == Lower(title \o description)
  IN  { Title(TECH_KEYWORDS[k]) :
          k \in { i \in 1..Len(TECH_KEYWORDS) :
                    WordMatch(TECH_KEYWORDS[i], combined_text) } }

\* the strict tech filter on the title
IsTech(title_lower) ==
  \E k \in 1..Len(TECH_KEYWORDS) : WordMatch(TECH_KEYWORDS[k], title_lower)

\* ------------------------------------------------------ upstream input
\* The postings a Greenhouse board may return: {id, title, location: {name},
\* absolute_url, content, updated_at}.  location is the name, Absent (no
\* such key) or Null; content is its sections (none when it is missing).
\* Any board may list any of them: ids are not qualified by the board here.
Postings ==
  { [id |-> 1, title |-> <<"Software", "Engineer">>, location |-> "NYC",
     absolute_url |-> "https://boards.greenhouse.io/job",
     content |-> << [class |-> "content-intro", words |-> <<"Our", "Mission">>],
                    [class |-> "", words |-> <<"Python">>] >>,
     has_updated_at |-> TRUE, updated_at |-> 0],
    [id |-> 2, title |-> <<"Data", "Intern">>, location |-> Absent,
     absolute_url |-> Null, content |-> <<>>,
     has_updated_at |-> FALSE, updated_at |-> 0],
    [id |-> 3, title |-> <<"Software", "Engineer">>, location |-> Null,
     absolute_url |-> "https://boards.greenhouse.io/job", content |-> <<>>,
     has_updated_at |-> TRUE, updated_at |-> 0],
    [id |-> 4, title |-> <<"Office", "Manager">>, location |-> "NYC",
     absolute_url |-> "https://boards.greenhouse.io/job",
     content |-> << [class |-> "", words |-> <<"Python">>] >>,
     has_updated_at |-> TRUE, updated_at |-> 0] }

JobLists == UNION { [1..n -> Postings] : n \in 0..MaxJobs }

\* What requests.get(url) can do: raise (transport failure), or return a
\* response with a status code; the body is read only when the code is 200.
Statuses == {200, 204, 404}

Responses ==
  { [raised |-> TRUE, status_code |-> 0, jobs |-> <<>>] }
  \cup { [raised |-> FALSE, status_code |-> st, jobs |-> <<>>] : st \in Statuses \ {200} }
  \cup { [raised |-> FALSE, status_code |-> 200, jobs |-> js] : js \in JobLists }

\* ------------------------------------------------------ the store
\* (mutant) CollectionReference.add: a new document each time
AddDocument(s, w) == s \cup { w }

\* (mutant) a set that keeps the createdAt of the document it overwrites
SetDocumentKeepCreated(s, w) ==
  { e \in s : e.key # w.key }
  \cup { IF \E e \in s : e.key = w.key
           THEN [w EXCEPT !.doc.createdAt =
                    (CHOOSE e \in s : e.key = w.key).doc.createdAt]
         ELSE w }

\* The jobs collection is a set of [key, doc] entries.  DocumentReference.set
\* creates the document or overwrites the one with that key.
SetDocument(s, w) == { e \in s : e.key # w.key } \cup { w }

\* A write batch is kept as the number of its writes and their net effect:
\* the writes are applied in order, so a later set of a reference replaces
\* an earlier one.
NewBatch == [size |-> 0, writes |-> {}]

\* (mutant) a second set of a reference in a batch is dropped
BatchSetKeepFirst(b, key, doc) ==
  [size |-> b.size + 1,
   writes |-> IF \E e \in b.writes : e.key = key
                THEN b.writes
              ELSE b.writes \cup { [key |-> key, doc |-> doc] }]

BatchSet(b, key, doc) ==
  [size |-> b.size + 1, writes |-> SetDocument(b.writes, [key |-> key, doc |-> doc])]

\* WriteBatch.commit applies the staged writes, all together.
RECURSIVE ApplyWrites(_, _)
ApplyWrites(s, ws) ==
  IF ws = {} THEN s
  ELSE LET w == CHOOSE x \in ws : TRUE
       IN  ApplyWrites(SetDocument(s, w), ws \ {w})

\* (mutant) a commit that writes the documents one by one and stops after the first
ApplyBatchPartly(s, b) ==
  IF b.writes = {} THEN s ELSE SetDocument(s, CHOOSE x \in b.writes : TRUE)

\* (mutant) a commit of create() writes: a document that exists is kept
ApplyBatchCreate(s, b) ==
  s \cup { e \in b.writes : \A f \in s : f.key # e.key }

\* (mutant) a commit that replaces the collection by the batch
ApplyBatchReplace(s, b) == b.writes

ApplyBatch(s, b) == ApplyWrites(s, b.writes)

\* ------------------------------------------------------ normalization
\* external_id = f"gh-{job_id}"
ExternalId(company, job) == <<"gh", job.id>>

\* job.get('location', {}).get('name', 'Remote') raises AttributeError when
\* the posting carries "location": null
BuildRaises(job) == job.location = Null

\* (mutant) the time stamps are read from the clock when the document is built
JobDocumentClock(job, company, now) ==
  LET title           == job.title
      title_lower     == Lower(title)
      external_id     == ExternalId(company, job)
      clean_description == clean_html_text(job.content)
  IN  [ title       |-> title,
        company     |-> Capitalize(company),
        location    |-> IF job.location = Absent THEN "Remote" ELSE job.location,
        jobType     |-> IF ContainsIntern(title_lower) THEN "Internship" ELSE "Full-time",
        applyUrl    |-> job.absolute_url,
        jdText      |-> clean_description,
        tags        |-> extract_tags(title, clean_description),
        source      |-> "scraped",
        sourceMeta  |-> [sourceId |-> "scrape_sources/greenhouse",
                         externalId |-> external_id],
        visibility  |-> "public",
        instituteId |-> Null,
        ownerUid    |-> Null,
        status      |-> "open",
        postedAt    |-> IF job.has_updated_at THEN job.updated_at ELSE clock,
        lastSeenAt  |-> clock,
        createdAt   |-> clock,
        updatedAt   |-> clock,
        normalized  |-> [companyLower |-> company, titleLower |-> title_lower] ]

JobDocument(job, company, now) ==
  LET title           == job.title
      title_lower     == Lower(title)
      external_id     == ExternalId(company, job)
      clean_description == clean_html_text(job.content)
  IN  [ title       |-> title,
        company     |-> Capitalize(company),
        location    |-> IF job.location = Absent THEN "Remote" ELSE job.location,
        jobType     |-> IF ContainsIntern(title_lower) THEN "Internship" ELSE "Full-time",
        applyUrl    |-> job.absolute_url,
        jdText      |-> clean_description,
        tags        |-> extract_tags(title, clean_description),
        source      |-> "scraped",
        sourceMeta  |-> [sourceId |-> "scrape_sources/greenhouse",
                         externalId |-> external_id],
        visibility  |-> "public",
        instituteId |-> Null,
        ownerUid    |-> Null,
        status      |-> "open",
        postedAt    |-> IF job.has_updated_at THEN job.updated_at ELSE now,
        lastSeenAt  |-> now,
        createdAt   |-> now,
        updatedAt   |-> now,
        normalized  |-> [companyLower |-> company, titleLower |-> title_lower] ]

\* JobDocument and the filter over the postings, companies and sync times
\* of the model, evaluated once
Documents ==
  [job \in Postings, i \in 1..NumSources, now \in 1..MaxClock |->
     [key |-> ExternalId(TARGET_COMPANIES[i], job),
      doc |-> JobDocument(job, TARGET_COMPANIES[i], now)]]

\* (mutant) the filter looks at the title and the description
RelevantByDescription ==
  [job \in Postings |->
     IsTech(Lower(job.title \o clean_html_text(job.content)))]

Relevant == [job \in Postings |-> IsTech(Lower(job.title))]

Raising == [job \in Postings |-> BuildRaises(job)]

\* (mutant) a posting whose document cannot be built is skipped
RECURSIVE ProcessJobsLenient(_, _, _, _, _)
ProcessJobsLenient(jobs, i, now, b, count) ==
  IF jobs = <<>> THEN [raised |-> FALSE, batch |-> b, upload_count |-> count]
  ELSE LET job == Head(jobs)
       IN  IF ~Relevant[job] \/ Raising[job]
             THEN ProcessJobsLenient(Tail(jobs), i, now, b, count)
           ELSE ProcessJobsLenient(Tail(jobs), i, now,
                            BatchSet(b, Documents[job, i, now].key,
                                     Documents[job, i, now].doc),
                            count + 1)

\* (mutant) upload_count counts every posting read, not every posting staged
RECURSIVE ProcessJobsCountAll(_, _, _, _, _)
ProcessJobsCountAll(jobs, i, now, b, count) ==
  IF jobs = <<>> THEN [raised |-> FALSE, batch |-> b, upload_count |-> count]
  ELSE LET job == Head(jobs)
       IN  IF ~Relevant[job]
             THEN ProcessJobsCountAll(Tail(jobs), i, now, b, count + 1)
           ELSE IF Raising[job]
             THEN [raised |-> TRUE, batch |-> b, upload_count |-> count]
           ELSE ProcessJobsCountAll(Tail(jobs), i, now,
                            BatchSet(b, Documents[job, i, now].key,
                                     Documents[job, i, now].doc),
                            count + 1)

\* The inner loop over response.json().get('jobs', []) for the i-th company:
\* every posting that passes the filter is built and staged with batch.set;
\* an exception stops the loop with what was staged so far.
RECURSIVE ProcessJobs(_, _, _, _, _)
ProcessJobs(jobs, i, now, b, count) ==
  IF jobs = <<>> THEN [raised |-> FALSE, batch |-> b, upload_count |-> count]
  ELSE LET job == Head(jobs)
       IN  IF ~Relevant[job]
             THEN ProcessJobs(Tail(jobs), i, now, b, count)
           ELSE IF Raising[job]
             THEN [raised |-> TRUE, batch |-> b, upload_count |-> count]
           ELSE ProcessJobs(Tail(jobs), i, now,
                            BatchSet(b, Documents[job, i, now].key,
                                     Documents[job, i, now].doc),
                            count + 1)

\* (mutant) response.raise_for_status(): a status other than 200 raises
IterationStrict(response, i, now, b, count) ==
  IF response.raised \/ response.status_code # 200
    THEN [raised |-> TRUE, cause |-> "request", batch |-> b, upload_count |-> count]
  ELSE LET done == ProcessJobs(response.jobs, i, now, b, count)
       IN  [raised |-> done.raised,
            cause |-> IF done.raised THEN "document" ELSE "",
            batch |-> done.batch, upload_count |-> done.upload_count]

\* What one iteration of `for company in TARGET_COMPANIES` does with the
\* response of the i-th company: requests.get raised, or the status code is
\* not 200 and the response is skipped, or its postings are processed.
Iteration(response, i, now, b, count) ==
  IF response.raised
    THEN [raised |-> TRUE, cause |-> "request", batch |-> b, upload_count |-> count]
  ELSE IF response.status_code # 200
    THEN [raised |-> FALSE, cause |-> "", batch |-> b, upload_count |-> count]
  ELSE LET done == ProcessJobs(response.jobs, i, now, b, count)
       IN  [raised |-> done.raised,
            cause |-> IF done.raised THEN "document" ELSE "",
            batch |-> done.batch, upload_count |-> done.upload_count]

\* (mutant) a source that did not answer 200 is requested again
NextCompanyRetry(i, response) ==
  IF response.raised \/ response.status_code # 200 THEN i ELSE i + 1

\* `for company in TARGET_COMPANIES`: after an iteration the loop goes on to
\* the next company, whatever the response was
NextCompany(i, response) == i + 1

\* (mutant) the loop is left after the first company
LoopDoneEarly(i) == i > 1

\* the for loop has gone through TARGET_COMPANIES: position i is past the end
LoopDone(i) == i > Len(TARGET_COMPANIES)

\* (mutant) the commit is issued whatever was staged
ShouldCommitAlways(count) == count >= 0

\* `if upload_count > 0`
ShouldCommit(count) == count > 0

\* (mutant) the except clause swallows the exception and reports success
FailureSwallowed(cause) ==
  [status_code |-> 200, status |-> "success", synced_count |-> 0, detail |-> cause]

\* HTTPException(status_code=500, detail=str(e)) of the except clause
Failure(cause) ==
  [status_code |-> 500, status |-> "", synced_count |-> 0, detail |-> cause]

\* the returned {"status": "success", ..., "synced_count": upload_count}
Success(count) ==
  [status_code |-> 200, status |-> "success", synced_count |-> count, detail |-> ""]

\* (mutant) only a missing key is refused
get_api_key_present(api_key) == api_key # Null

\* get_api_key: the dependency of /sync-jobs
get_api_key(api_key) == api_key = API_KEY

\* The for loop over the companies, taken in the order `order` (a sequence
\* of positions in TARGET_COMPANIES), answers[i] being the response of the
\* i-th company; it stops at the first iteration that raises.
RECURSIVE RunLoop(_, _, _, _, _)
RunLoop(order, answers, now, b, count) ==
  IF order = <<>> THEN [raised |-> FALSE, batch |-> b, upload_count |-> count]
  ELSE LET done == Iteration(answers[Head(order)], Head(order), now, b, count)
       IN  IF done.raised
             THEN [raised |-> TRUE, batch |-> done.batch,
                   upload_count |-> done.upload_count]
           ELSE RunLoop(Tail(order), answers, now, done.batch, done.upload_count)

\* The store after a cycle over the companies in that order, whose commit
\* goes through
CycleStore(s, order, answers, now) ==
  LET done == RunLoop(order, answers, now, NewBatch, 0)
  IN  IF ~done.raised /\ ShouldCommit(done.upload_count)
        THEN ApplyBatch(s, done.batch)
      ELSE s

\* The configured order, and every order of the configured companies
ConfiguredOrder == [i \in 1..Len(TARGET_COMPANIES) |-> i]

Orders ==
  { o \in [1..Len(TARGET_COMPANIES) -> 1..Len(TARGET_COMPANIES)] :
      \A i, j \in DOMAIN o : o[i] = o[j] => i = j }

\* ------------------------------------------------------ initial state
NoResult == [status_code |-> 0, status |-> "", synced_count |-> 0, detail |-> ""]

Keys == {API_KEY, "wrong-key", Null}

AnyResponse == CHOOSE r \in Responses : r.raised

\* The server has started, the collection is empty, no request has come
Started ==
  /\ clock = 1
  /\ store = {}
  /\ phase = [w \in Workers |-> "Idle"]
  /\ now_iso = [w \in Workers |-> 0]
  /\ upload_count = [w \in Workers |-> 0]
  /\ batch = [w \in Workers |-> NewBatch]
  /\ idx = [w \in Workers |-> 0]
  /\ result = [w \in Workers |-> NoResult]
  /\ requests = [w \in Workers |-> <<>>]
  /\ passed = [w \in Workers |-> 0]
  /\ commits = [w \in Workers |-> <<>>]
  /\ snapshot = [w \in Workers |-> {}]
  /\ ever_committed = {}
  /\ synced_now = 0

Init ==
  /\ Started
  /\ board = [i \in 1..NumSources |-> [fixed |-> FALSE, response |-> AnyResponse]]

\* The responses the i-th board may give to a request
Offered(i) == IF board[i].fixed THEN {board[i].response} ELSE Responses

\* ------------------------------------------------------ actions
\* Time passes.
Tick ==
  /\ clock < MaxClock
  /\ clock' = clock + 1
  /\ UNCHANGED <<board, store, phase, now_iso, upload_count, batch, idx, result,
                 requests, passed, commits, snapshot, ever_committed, synced_now>>

\* A request goes to the first worker that is not serving one.
Arrives(w) ==
  /\ phase[w] # "Running"
  /\ \A v \in Workers : v < w => phase[v] = "Running"

\* The boards answer every request of the behaviour the same way
Stable == \A i \in 1..NumSources : board[i].fixed

\* The handler returns `res` or raises it.
Respond(w, res) ==
  /\ result' = [result EXCEPT ![w] = res]
  /\ phase' = [phase EXCEPT ![w] =
        IF res.status_code = 200 THEN "Succeeded" ELSE "Failed"]
  /\ synced_now' = IF res.status_code = 200 /\ Stable THEN now_iso[w] ELSE synced_now

\* The locals and the history of a new request
Fresh(w, at, pos) ==
  /\ now_iso' = [now_iso EXCEPT ![w] = at]
  /\ upload_count' = [upload_count EXCEPT ![w] = 0]
  /\ batch' = [batch EXCEPT ![w] = NewBatch]
  /\ idx' = [idx EXCEPT ![w] = pos]
  /\ requests' = [requests EXCEPT ![w] = <<>>]
  /\ passed' = [passed EXCEPT ![w] = 0]
  /\ commits' = [commits EXCEPT ![w] = <<>>]
  /\ snapshot' = [snapshot EXCEPT ![w] = store]

\* GET /sync-jobs with a bad key: 403 before the handler body runs
Reject(w, api_key) ==
  /\ Arrives(w)
  /\ ~get_api_key(api_key)
  /\ phase' = [phase EXCEPT ![w] = "Rejected"]
  /\ result' = [result EXCEPT ![w] =
        [status_code |-> 403, status |-> "", synced_count |-> 0,
         detail |-> "Invalid or missing API Key"]]
  /\ Fresh(w, 0, 0)
  /\ UNCHANGED <<clock, board, store, ever_committed, synced_now>>

\* GET /sync-jobs with the key: now_iso, upload_count = 0, batch = db.batch()
Trigger(w, api_key) ==
  /\ Arrives(w)
  /\ get_api_key(api_key)
  /\ phase' = [phase EXCEPT ![w] = "Running"]
  /\ result' = [result EXCEPT ![w] = NoResult]
  /\ Fresh(w, clock, 1)
  /\ UNCHANGED <<clock, board, store, ever_committed, synced_now>>

\* The postings of a response that pass the filter
PassCount(response) ==
  Cardinality({ j \in 1..Len(response.jobs) : Relevant[response.jobs[j]] })

\* requests.get(url) is called without a timeout: it returns or raises when
\* the server answers or the connection breaks, and blocks as long as
\* neither happens.  NoAnswer is the code kept of a request that blocks.
NoAnswer == 0 - 1

\* The handler of worker w is blocked in requests.get
Hung(w) ==
  /\ requests[w] # <<>>
  /\ requests[w][Len(requests[w])].code = NoAnswer

\* One iteration of `for company in TARGET_COMPANIES` in which requests.get
\* gives `response`: the request and the processing of the response.
FetchWith(w, response) ==
  /\ phase[w] = "Running"
  /\ ~LoopDone(idx[w])
  /\ ~Hung(w)
  /\ response \in Offered(idx[w])
  /\ requests' = [requests EXCEPT ![w] = Append(@,
        [company |-> TARGET_COMPANIES[idx[w]], code |-> response.status_code])]
  /\ passed' = [passed EXCEPT ![w] = @ + PassCount(response)]
  /\ LET done == Iteration(response, idx[w], now_iso[w], batch[w], upload_count[w])
     IN  /\ batch' = [batch EXCEPT ![w] = done.batch]
         /\ upload_count' = [upload_count EXCEPT ![w] = done.upload_count]
         /\ IF done.raised
              THEN /\ Respond(w, Failure(done.cause))
                   /\ UNCHANGED idx
              ELSE /\ idx' = [idx EXCEPT ![w] = NextCompany(@, response)]
                   /\ UNCHANGED <<phase, result, synced_now>>
  /\ UNCHANGED <<clock, board, store, now_iso, commits, snapshot, ever_committed>>

FetchSource(w) == \E response \in Responses : FetchWith(w, response)

\* The request of the iteration is sent and the board never answers it: the
\* handler stays in requests.get.
FetchHangs(w) ==
  /\ phase[w] = "Running"
  /\ ~LoopDone(idx[w])
  /\ ~Hung(w)
  /\ requests' = [requests EXCEPT ![w] = Append(@,
        [company |-> TARGET_COMPANIES[idx[w]], code |-> NoAnswer])]
  /\ UNCHANGED <<clock, board, store, phase, now_iso, upload_count, batch, idx,
                 result, passed, commits, snapshot, ever_committed, synced_now>>

\* `if upload_count > 0: batch.commit()` and the return, when the commit
\* goes through
CommitOk(w) ==
  /\ phase[w] = "Running"
  /\ LoopDone(idx[w])
  /\ ShouldCommit(upload_count[w])
  /\ store' = ApplyBatch(store, batch[w])
  /\ commits' = [commits EXCEPT ![w] = Append(@, "ok")]
  /\ ever_committed' = ever_committed \cup { e.key : e \in batch[w].writes }
  /\ Respond(w, Success(upload_count[w]))
  /\ UNCHANGED <<clock, board, now_iso, upload_count, batch, idx, requests,
                 passed, snapshot>>

\* batch.commit() raises: nothing is written, the except clause answers 500
CommitFails(w) ==
  /\ phase[w] = "Running"
  /\ LoopDone(idx[w])
  /\ ShouldCommit(upload_count[w])
  /\ commits' = [commits EXCEPT ![w] = Append(@, "raised")]
  /\ Respond(w, Failure("commit"))
  /\ UNCHANGED <<clock, board, store, now_iso, upload_count, batch, idx, requests,
                 passed, snapshot, ever_committed>>

\* nothing staged: the return without a commit
ReturnEmpty(w) ==
  /\ phase[w] = "Running"
  /\ LoopDone(idx[w])
  /\ ~ShouldCommit(upload_count[w])
  /\ Respond(w, Success(upload_count[w]))
  /\ UNCHANGED <<clock, board, store, now_iso, upload_count, batch, idx, requests,
                 passed, commits, snapshot, ever_committed>>

\* No request is being served
Quiet == \A w \in Workers : phase[w] # "Running"

\* One request at a time
Next ==
  \/ Tick
  \/ \E w \in Workers, k \in Keys : Quiet /\ Reject(w, k)
  \/ \E w \in Workers, k \in Keys : Quiet /\ Trigger(w, k)
  \/ \E w \in Workers : FetchSource(w)
  \/ \E w \in Workers : FetchHangs(w)
  \/ \E w \in Workers : CommitOk(w)
  \/ \E w \in Workers : CommitFails(w)
  \/ \E w \in Workers : ReturnEmpty(w)

Spec == Init /\ [][Next]_vars

\* The same, against boards whose answers never change
FixedResponses == { r \in Responses : Len(r.jobs) <= ResyncJobs }

InitResync ==
  /\ Started
  /\ board \in [1..NumSources -> { [fixed |-> TRUE, response |-> r] : r \in FixedResponses }]

SpecResync == InitResync /\ [][Next]_vars

\* Requests are served as they come: a request that arrives while another is
\* being served goes to the next worker thread, and the two handlers run
\* with their steps interleaved.
NextOverlap ==
  \/ Tick
  \/ \E w \in Workers, k \in Keys : Reject(w, k)
  \/ \E w \in Workers, k \in Keys : Trigger(w, k)
  \/ \E w \in Workers : FetchSource(w)
  \/ \E w \in Workers : FetchHangs(w)
  \/ \E w \in Workers : CommitOk(w)
  \/ \E w \in Workers : CommitFails(w)
  \/ \E w \in Workers : ReturnEmpty(w)

SpecOverlap == InitResync /\ [][NextOverlap]_vars

\* The steps of a handler that are taken when they can be: an answer that
\* has come is processed, and the commit and the return are reached.  That a
\* board answers is not among them.
Fairness ==
  \A w \in Workers :
     /\ WF_vars(FetchSource(w))
     /\ WF_vars(CommitOk(w) \/ CommitFails(w))
     /\ WF_vars(ReturnEmpty(w))

SpecLive == Init /\ [][Next]_vars /\ Fairness

\* ------------------------------------------------------ properties

\* C1: batch atomicity.  A step either leaves the store as it is, or it is
\* the commit of a running cycle and the store then holds every document of
\* that cycle's batch, together with the documents of the other keys, which
\* are unchanged: no step shows a part of a batch.
BatchAtomicity ==
  [][ \/ store' = store
      \/ \E w \in Workers :
           /\ phase[w] = "Running"
           /\ batch[w].writes \subseteq store'
           /\ \A e \in store' :
                \/ e \in batch[w].writes
                \/ e \in store /\ \A x \in batch[w].writes : x.key # e.key
           /\ \A e \in store :
                (\A x \in batch[w].writes : x.key # e.key) => e \in store'
    ]_vars

\* C1 witness: a commit of two documents went through and both are stored
BatchAtomicityWitness ==
  \E w \in Workers :
     /\ phase[w] = "Succeeded"
     /\ commits[w] = <<"ok">>
     /\ Cardinality(batch[w].writes) >= 2
     /\ batch[w].writes \subseteq store

\* A response with a status outside 200..299
NonSuccess(response) ==
  /\ ~response.raised
  /\ response.status_code \notin 200..299

\* C2: a source that answers with a non-2xx status stages nothing, and the
\* cycle goes on, still Running, to the next configured source.
NonSuccessIsolated ==
  [][ \A w \in Workers, r \in Responses :
        (FetchWith(w, r) /\ NonSuccess(r)) =>
           /\ batch'[w] = batch[w]
           /\ upload_count'[w] = upload_count[w]
           /\ phase'[w] = "Running"
           /\ idx'[w] = idx[w] + 1
           /\ store' = store
    ]_vars

\* C2 witness: a cycle in which one source answered 404 ended Succeeded
\* after requesting every source, with the other source's documents stored
NonSuccessIsolatedWitness ==
  \E w \in Workers :
     /\ phase[w] = "Succeeded"
     /\ Len(requests[w]) = NumSources
     /\ \E i \in DOMAIN requests[w] : requests[w][i].code = 404
     /\ batch[w].writes # {}
     /\ batch[w].writes \subseteq store

\* C3 (as claimed): a request that raises is not fatal; the cycle does not
\* end Failed because of it.
TransportFailureIsolated ==
  \A w \in Workers :
     (\E i \in DOMAIN requests[w] : requests[w][i].code = 0) => phase[w] # "Failed"

\* A 200 response with a posting that passes the filter and whose document
\* cannot be built
Unbuildable(response) ==
  /\ ~response.raised
  /\ response.status_code = 200
  /\ \E j \in 1..Len(response.jobs) :
        Relevant[response.jobs[j]] /\ Raising[response.jobs[j]]

\* C4: when the document of a posting cannot be built, the cycle ends Failed
\* with a 500, no commit is issued and the store is what it was when the
\* cycle started, whatever was staged before.
NormalizationFailureAborts ==
  [][ \A w \in Workers, r \in Responses :
        (FetchWith(w, r) /\ Unbuildable(r)) =>
           /\ phase'[w] = "Failed"
           /\ result'[w].status_code = 500
           /\ commits'[w] = <<>>
           /\ store' = store
           /\ store' = snapshot[w]
    ]_vars

\* C4 witness: the failure came in the second source, after a document of
\* the first source was staged
NormalizationFailureWitness ==
  \E w \in Workers :
     /\ phase[w] = "Failed"
     /\ result[w].detail = "document"
     /\ idx[w] = 2
     /\ upload_count[w] > 0
     /\ batch[w].writes # {}
     /\ store = snapshot[w]

\* C5: a cycle issues at most one commit; when that commit raised, the cycle
\* is Failed, its one result is the 500 carrying the cause, and the store is
\* what it was when the cycle started.
CommitFailureFails ==
  \A w \in Workers :
     /\ Len(commits[w]) <= 1
     /\ commits[w] = <<"raised">> =>
          /\ phase[w] = "Failed"
          /\ result[w] = [status_code |-> 500, status |-> "", synced_count |-> 0,
                          detail |-> "commit"]
          /\ store = snapshot[w]

\* C5 witness: the commit of a batch with documents raised
CommitFailureWitness ==
  \E w \in Workers :
     /\ commits[w] = <<"raised">>
     /\ upload_count[w] > 0
     /\ batch[w].writes # {}

\* C6: the store holds exactly one document for every key that a commit
\* has written, and for no other key; so a commit that writes a key already
\* stored does not add a document.
OneDocumentPerKey ==
  /\ \A e, f \in store : e.key = f.key => e = f
  /\ { e.key : e \in store } = ever_committed
  /\ Cardinality(store) = Cardinality(ever_committed)

\* C6 witness: a commit replaced a stored document by a different one and
\* the store has as many documents as before
OneDocumentPerKeyWitness ==
  \E w \in Workers :
     /\ phase[w] = "Succeeded"
     /\ commits[w] = <<"ok">>
     /\ \E e \in batch[w].writes, f \in snapshot[w] :
           e.key = f.key /\ e # f /\ e \in store /\ f \notin store
     /\ Cardinality(store) = Cardinality(snapshot[w])

\* C7 (as claimed): the documents staged from one source are never
\* overwritten by the documents staged from another source, since their
\* keys differ: processing a source keeps every write already in the batch.
SourceQualifiedKeys ==
  [][ \A w \in Workers, r \in Responses :
        FetchWith(w, r) => batch[w].writes \subseteq batch'[w].writes ]_vars

\* C8: a cycle that ended Succeeded with something staged issued one commit,
\* which went through; the batch had upload_count writes, synced_count is
\* upload_count, and that is the number of postings that passed the filter
\* in the responses with status 200.
CountAndSingleCommit ==
  \A w \in Workers :
     (phase[w] = "Succeeded" /\ upload_count[w] > 0) =>
        /\ commits[w] = <<"ok">>
        /\ batch[w].size = upload_count[w]
        /\ result[w].synced_count = upload_count[w]
        /\ upload_count[w] = passed[w]

\* C8 witness: one source gave two relevant postings, the other a 404; one
\* commit of size 2 and synced_count 2
CountAndSingleCommitWitness ==
  \E w \in Workers :
     /\ phase[w] = "Succeeded"
     /\ \E i \in DOMAIN requests[w] : requests[w][i].code = 404
     /\ commits[w] = <<"ok">>
     /\ batch[w].size = 2
     /\ result[w].synced_count = 2

\* Every request of the cycle was answered
AllAnswered(w) == \A i \in DOMAIN requests[w] : requests[w][i].code # 0

ResyncIdempotent ==
  [][ \A w \in Workers :
        (phase[w] = "Running" /\ synced_now = now_iso[w]) => store' = store ]_vars

\* C10 witness: the second cycle committed its documents and the store is
\* what it was when this cycle started
ResyncIdempotentWitness ==
  \E w \in Workers :
     /\ phase[w] = "Succeeded"
     /\ commits[w] = <<"ok">>
     /\ batch[w].writes # {}
     /\ synced_now = now_iso[w]
     /\ snapshot[w] # {}
     /\ store = snapshot[w]

\* A document as one cycle builds it, whole
WholeDocument(e) ==
  \E job \in Postings, i \in 1..NumSources, now \in 1..MaxClock :
     e = Documents[job, i, now]

\* The step is a batch.commit() of worker w that went through
Committed(w) == commits'[w] = Append(commits[w], "ok")

\* C11 (under SpecOverlap, where the cycles of two requests interleave): the
\* store holds one document for a key, and it is a whole document as one
\* cycle built it; the store changes only in the commit of a cycle that has
\* processed every source, and that step puts the cycle's document under
\* every key the cycle staged and leaves the documents of the other keys as
\* they were, so the document of a key is that of the last commit that
\* staged it and no step shows a part of a batch.
OverlapLastWriteWins ==
  /\ [](/\ \A e, f \in store : e.key = f.key => e = f
        /\ \A e \in store : WholeDocument(e))
  /\ [][ IF \E w \in Workers : Committed(w)
           THEN \E w \in Workers :
                  /\ Committed(w)
                  /\ phase[w] = "Running"
                  /\ phase'[w] = "Succeeded"
                  /\ idx[w] > Len(TARGET_COMPANIES)
                  /\ \A e \in batch[w].writes : e \in store'
                  /\ \A e \in store' :
                       IF \E x \in batch[w].writes : x.key = e.key
                         THEN e \in batch[w].writes
                         ELSE e \in store
                  /\ \A e \in store :
                       (\A x \in batch[w].writes : x.key # e.key) => e \in store'
           ELSE store' = store
       ]_vars

\* C11 witness: the cycle of worker 2 started while the cycle of worker 1
\* was running and committed first; both staged one key with different
\* documents, and the store holds the document of worker 1, whose commit
\* came last
OverlapWitness ==
  /\ phase[1] = "Succeeded" /\ commits[1] = <<"ok">>
  /\ phase[2] = "Succeeded" /\ commits[2] = <<"ok">>
  /\ now_iso[1] < now_iso[2]
  /\ \E e \in batch[1].writes, f \in batch[2].writes :
        e.key = f.key /\ e # f /\ e \in store /\ f \notin store

\* C12: the requests of a cycle are those of the first configured sources,
\* one each, in the configured order: no source is requested twice, whatever
\* its answer was; a running cycle has requested the sources before its
\* position (and the one at its position while it waits for the answer),
\* and a cycle that ended Succeeded has requested every one.
FetchOnceInOrder ==
  \A w \in Workers :
     /\ Len(requests[w]) <= Len(TARGET_COMPANIES)
     /\ \A j \in DOMAIN requests[w] : requests[w][j].company = TARGET_COMPANIES[j]
     /\ \A j, k \in DOMAIN requests[w] :
           requests[w][j].company = requests[w][k].company => j = k
     /\ phase[w] = "Running" =>
          Len(requests[w]) = IF Hung(w) THEN idx[w] ELSE idx[w] - 1
     /\ phase[w] = "Succeeded" => Len(requests[w]) = Len(TARGET_COMPANIES)

\* C12 witness: the first source answered 404 and was not requested again;
\* the cycle requested every source once and ended Succeeded
FetchOnceWitness ==
  \E w \in Workers :
     /\ phase[w] = "Succeeded"
     /\ Len(requests[w]) = Len(TARGET_COMPANIES)
     /\ requests[w][1].code = 404
     /\ \A j \in DOMAIN requests[w] : requests[w][j].company = TARGET_COMPANIES[j]

\* C13: a request whose key is missing or is not the configured one is
\* answered 403 and starts no cycle: the step requests no source, creates
\* and commits no batch and leaves the store as it is; and as long as the
\* worker's latest request is a rejected one, it has requested nothing,
\* staged nothing and committed nothing.
AuthorizationGate ==
  /\ [][ \A w \in Workers, k \in Keys \ {API_KEY} :
           (Reject(w, k) \/ Trigger(w, k)) =>
              /\ phase'[w] = "Rejected"
              /\ result'[w].status_code = 403
              /\ requests'[w] = <<>>
              /\ batch'[w] = NewBatch
              /\ commits'[w] = <<>>
              /\ store' = store ]_vars
  /\ [](\A w \in Workers :
          phase[w] = "Rejected" =>
             /\ result[w].status_code = 403
             /\ requests[w] = <<>>
             /\ batch[w].size = 0 /\ batch[w].writes = {}
             /\ upload_count[w] = 0
             /\ commits[w] = <<>>
             /\ store = snapshot[w])

\* C13 witness: a request was rejected while the store held documents of an
\* earlier cycle, which are all still there
AuthorizationGateWitness ==
  \E w \in Workers :
     /\ phase[w] = "Rejected"
     /\ result[w].status_code = 403
     /\ store # {}
     /\ store = snapshot[w]
     /\ requests[w] = <<>>

\* The postings of a response whose lower-cased title has a keyword as
\* whole words
TitleMatches(response) ==
  { j \in 1..Len(response.jobs) : IsTech(Lower(response.jobs[j].title)) }

\* C14 (under SpecResync): every document staged or stored has a title that
\* a keyword matches; and an iteration over a 200 response that does not
\* raise stages one document for each posting whose title a keyword
\* matches, under that posting's key, and nothing for the other postings,
\* whatever their description says.
RelevanceGating ==
  /\ [](/\ \A e \in store : IsTech(Lower(e.doc.title))
        /\ \A w \in Workers : \A e \in batch[w].writes : IsTech(Lower(e.doc.title)))
  /\ [][ \A w \in Workers, r \in Responses :
           (FetchWith(w, r) /\ r.status_code = 200 /\ phase'[w] = "Running") =>
              /\ upload_count'[w] = upload_count[w] + Cardinality(TitleMatches(r))
              /\ batch'[w].size = batch[w].size + Cardinality(TitleMatches(r))
              /\ \A j \in TitleMatches(r) :
                    \E e \in batch'[w].writes :
                       /\ e.key = ExternalId(TARGET_COMPANIES[idx[w]], r.jobs[j])
                       /\ e.doc.title = r.jobs[j].title
              /\ \A e \in batch'[w].writes \ batch[w].writes :
                    \E j \in TitleMatches(r) :
                       e = Documents[r.jobs[j], idx[w], now_iso[w]] ]_vars

\* C14 witness: a board lists a posting whose title matches no keyword and
\* whose description does; a cycle over the boards committed documents and
\* none of the stored documents is of that posting
RelevanceGatingWitness ==
  \E i \in 1..NumSources, w \in Workers :
     /\ board[i].response.status_code = 200
     /\ \E j \in 1..Len(board[i].response.jobs) :
          LET job == board[i].response.jobs[j]
          IN  /\ ~IsTech(Lower(job.title))
              /\ IsTech(Lower(clean_html_text(job.content)))
              /\ extract_tags(job.title, clean_html_text(job.content)) # {}
              /\ \A e \in store : e.doc.title # job.title
     /\ phase[w] = "Succeeded"
     /\ commits[w] = <<"ok">>
     /\ Len(requests[w]) = NumSources
     /\ store # {}

\* The answers of the boards, when they are fixed
Answers == [i \in 1..NumSources |-> board[i].response]

\* C15 (as claimed, under SpecResync): when a cycle has ended Succeeded, the
\* store is what a cycle over the same answers with the same now_iso leaves
\* from the store the cycle started with, in whatever order the sources
\* are processed.
OrderIndependence ==
  \A w \in Workers :
     phase[w] = "Succeeded" =>
        \A o \in Orders :
           CycleStore(snapshot[w], o, Answers, now_iso[w]) = store

\* The cycle of the code is the cycle in the configured order
ConfiguredOrderIsTheCycle ==
  \A w \in Workers :
     (phase[w] = "Succeeded" /\ commits[w] # <<"raised">>) =>
        CycleStore(snapshot[w], ConfiguredOrder, Answers, now_iso[w]) = store

\* C16 (as claimed, under SpecLive): a cycle that is Running eventually ends
\* Succeeded or Failed.
CycleTerminates ==
  \A w \in Workers :
     (phase[w] = "Running") ~> (phase[w] \in {"Succeeded", "Failed"})

\* C17: now_iso is read once, when the cycle starts, and does not change
\* while the cycle is Running, however the clock advances; when the commit of
\* the cycle has gone through, every document of its batch is stored with
\* lastSeenAt, updatedAt and createdAt all equal to that now_iso, also where
\* the store held a document of the key with an earlier createdAt.
TimestampsPerCycle ==
  /\ [][ \A w \in Workers :
           /\ (phase[w] # "Running" /\ phase'[w] = "Running") => now_iso'[w] = clock
           /\ phase[w] = "Running" => now_iso'[w] = now_iso[w] ]_vars
  /\ [](\A w \in Workers :
          (phase[w] = "Succeeded" /\ commits[w] = <<"ok">>) =>
             \A e \in batch[w].writes :
                /\ e \in store
                /\ e.doc.lastSeenAt = now_iso[w]
                /\ e.doc.updatedAt = now_iso[w]
                /\ e.doc.createdAt = now_iso[w])

\* C17 witness: the commit of a cycle overwrote a document created by an
\* earlier cycle, and the stored document now carries the now_iso of this
\* cycle as its createdAt
TimestampsWitness ==
  \E w \in Workers :
     /\ phase[w] = "Succeeded"
     /\ commits[w] = <<"ok">>
     /\ \E e \in store, f \in snapshot[w] :
           /\ e \in batch[w].writes
           /\ f.key = e.key
           /\ f.doc.createdAt < e.doc.createdAt
           /\ e.doc.createdAt = now_iso[w]
           /\ e.doc.lastSeenAt = now_iso[w]

\* The keys of a set of [key, doc] entries
KeysOf(entries) == { e.key : e \in entries }

\* C18: no step takes a key out of the store, and a stored document changes
\* only in a commit of a cycle that staged its key; so when a cycle has
\* ended, every document that was stored when it started and whose key it
\* did not stage is stored as it was, in every field.
NoPruning ==
  /\ [][ /\ KeysOf(store) \subseteq KeysOf(store')
         /\ \A e \in store :
              e \notin store' =>
                 \E w \in Workers :
                    Committed(w) /\ e.key \in KeysOf(batch[w].writes) ]_vars
  /\ [](\A w \in Workers :
          phase[w] \in {"Succeeded", "Failed"} =>
             /\ KeysOf(snapshot[w]) \subseteq KeysOf(store)
             /\ \A e \in snapshot[w] :
                  (commits[w] # <<"ok">> \/ e.key \notin KeysOf(batch[w].writes))
                     => e \in store)

\* C18 witness: a source answered 404 and the cycle committed documents of
\* other keys; a document of an earlier cycle whose key was not staged is
\* stored as it was, with its earlier lastSeenAt
NoPruningWitness ==
  \E w \in Workers :
     /\ phase[w] = "Succeeded"
     /\ commits[w] = <<"ok">>
     /\ \E j \in DOMAIN requests[w] : requests[w][j].code = 404
     /\ batch[w].writes # {}
     /\ \E f \in snapshot[w] :
           /\ f.key \notin KeysOf(batch[w].writes)
           /\ f \in store
           /\ f.doc.lastSeenAt < now_iso[w]

\* C19: the store changes only in the commit of a cycle that has requested
\* every configured source and got an answer from each; once a cycle has
\* issued its commit it makes no further request and no further commit; and
\* a cycle that failed in a request or in building a document issued no
\* commit and left the store as it was when the cycle started, whatever it
\* had staged.
CommitIsLast ==
  /\ [][ /\ store' # store =>
              \E w \in Workers :
                 /\ Committed(w)
                 /\ commits[w] = <<>>
                 /\ Len(requests[w]) = Len(TARGET_COMPANIES)
                 /\ \A j \in DOMAIN requests[w] :
                       requests[w][j].code \notin {0, NoAnswer}
         /\ \A w \in Workers :
              commits[w] # <<>> =>
                 \/ requests'[w] = requests[w] /\ commits'[w] = commits[w]
                 \/ requests'[w] = <<>> /\ commits'[w] = <<>> ]_vars
  /\ [](\A w \in Workers :
          (phase[w] = "Failed" /\ result[w].detail \in {"request", "document"}) =>
             /\ commits[w] = <<>>
             /\ store = snapshot[w])

\* C19 witness: the request to a later source raised after documents of the
\* sources before it were staged; no commit, and the store is what it was
CommitIsLastWitness ==
  \E w \in Workers :
     /\ phase[w] = "Failed"
     /\ result[w].detail = "request"
     /\ idx[w] > 1
     /\ batch[w].writes # {}
     /\ commits[w] = <<>>
     /\ store = snapshot[w]

\* The keys under which the postings of a response from the i-th company
\* are staged
StagedKeys(response, i) ==
  { ExternalId(TARGET_COMPANIES[i], response.jobs[j]) : j \in TitleMatches(response) }

\* C20: upload_count is the number of batch.set calls and is never less than
\* the number of documents of the batch; the synced_count of a cycle that
\* ended Succeeded is that count, and the documents its commit wrote are
\* those of the batch, one for a key.  An iteration that does not raise
\* adds one to the count for every posting it stages and one document for
\* every key that was not staged before, so the count exceeds the number of
\* documents exactly by the postings staged under a key already staged;
\* and of the postings of a key the last one staged is the one kept.
CountVersusDocuments ==
  /\ [](\A w \in Workers :
          /\ batch[w].size = upload_count[w]
          /\ Cardinality(batch[w].writes) = Cardinality(KeysOf(batch[w].writes))
          /\ Cardinality(batch[w].writes) <= upload_count[w]
          /\ phase[w] = "Succeeded" =>
                /\ result[w].synced_count = upload_count[w]
                /\ commits[w] = <<"ok">> => batch[w].writes \subseteq store)
  /\ [][ \A w \in Workers, r \in Responses :
           (FetchWith(w, r) /\ r.status_code = 200 /\ phase'[w] = "Running") =>
              /\ upload_count'[w] = upload_count[w] + Cardinality(TitleMatches(r))
              /\ KeysOf(batch'[w].writes) =
                    KeysOf(batch[w].writes) \cup StagedKeys(r, idx[w])
              /\ \A e \in batch[w].writes :
                    e.key \notin StagedKeys(r, idx[w]) => e \in batch'[w].writes
              /\ \A j \in TitleMatches(r) :
                    (\A k \in TitleMatches(r) :
                        (k > j) => ExternalId(TARGET_COMPANIES[idx[w]], r.jobs[k])
                                     # ExternalId(TARGET_COMPANIES[idx[w]], r.jobs[j]))
                    => Documents[r.jobs[j], idx[w], now_iso[w]] \in batch'[w].writes
         ]_vars

\* C20 witness: two postings were staged under one key, the later one from
\* the second company; synced_count is 2, the commit wrote one document and
\* it is the one of the second company
CountVersusDocumentsWitness ==
  \E w \in Workers :
     /\ phase[w] = "Succeeded"
     /\ commits[w] = <<"ok">>
     /\ result[w].synced_count = 2
     /\ Cardinality(batch[w].writes) = 1
     /\ \A j \in DOMAIN requests[w] : requests[w][j].code = 200
     /\ \E e \in batch[w].writes :
           /\ e \in store
           /\ e.doc.company = Capitalize(TARGET_COMPANIES[2])

====
